---- MODULE Spec2Model ----
(***************************************************************************)
(* zustand-travel: the `travel` middleware of src/src/index.ts.            *)
(*                                                                         *)
(* One store built by travelImpl: the initializer runs with the bypassing  *)
(* dispatcher, its return value is partitioned into data and behavior, a   *)
(* history engine (the external `travels` package) is constructed from the *)
(* data, and every engine emission is republished to the host store        *)
(* (external `zustand`) as {...state, ...actions} with replace = true.     *)
(*                                                                         *)
(* JavaScript values are modelled as records [kind, obj]: kind is what     *)
(* `typeof` / Array.isArray / === null distinguish, obj is the map of the  *)
(* value's enumerable keys (what for...in and object spread see).          *)
(* Member values are atoms: "d0", "d1" are data, "fA", "fB" are function   *)
(* references (identity = equality of the atom).                           *)
(***************************************************************************)
EXTENDS Integers, Sequences, FiniteSets, TLC

VARIABLES
    dev,            \* the build flag __DEV__
    options,        \* the options handed to travel(initializer, options)
    pc,             \* "uninit" | "initializing" | "live" | "failed"
    isInitializing, \* index.ts:102
    actions,        \* index.ts:101
    travels,        \* index.ts:100, the engine instance (built = FALSE: unassigned)
    subscribed,     \* the callback of index.ts:180 is registered on the engine
    hasControls,    \* store.getControls is attached (index.ts:186)
    store,          \* the host store's state
    initRet,        \* what the initializer returned
    wiring,         \* the construction steps taken so far, in order
    last,           \* the last call made on the store and how it ended
    ninit,          \* dispatcher calls made so far by the running initializer
    ncommits,       \* Active-phase dispatcher calls the engine committed
    ups,            \* history of the run: the successful updates made since
                    \* construction, while nothing but updates and then
                    \* back() calls were made (-1 otherwise)
    backs,          \* ... and the back() calls made after them
    trip,           \* a run of k effective back() calls followed by j
                    \* effective forward() calls, and the store before it
    arch,           \* m: the successful updates a fresh store had taken
                    \* when archive() was called on it (0: no such call, or
                    \* something other than one back() followed); backed:
                    \* that one back() was made
    other           \* a second store created from the same state creator:
                    \* its closure state (index.ts:100-102) and host state

vars == <<dev, options, pc, isInitializing, actions, travels, subscribed,
          hasControls, store, initRet, wiring, last, ninit, ncommits,
          ups, backs, trip, arch, other>>

-----------------------------------------------------------------------------
(* Bounds *)

MaxHistory == 1     \* the maxHistory option the store is configured with
MaxCommits == 2     \* dispatcher calls that reach the engine
MaxInitSets == 1    \* dispatcher calls made by the initializer

-----------------------------------------------------------------------------
(* Values *)

DataVals == {"d0", "d1"}
FnRefs == {"fA", "fB"}

IsCallable(v) == v \in FnRefs

NoKeys == [k \in {} |-> "d0"]

Obj(m) == [kind |-> "object", obj |-> m]
Arr(m) == [kind |-> "array", obj |-> m]
Undefined == [kind |-> "undefined", obj |-> NoKeys]
Null == [kind |-> "null", obj |-> NoKeys]
Prim == [kind |-> "prim", obj |-> NoKeys]
Fn == [kind |-> "function", obj |-> NoKeys]

\* { ...v }: the own enumerable keys of v; none for null, undefined, a number
\* or a function.
Spread(v) == IF v.kind \in {"object", "array"} THEN v.obj ELSE NoKeys

\* Object.assign({}, a, b) on key maps: b's entries win.
Assign(a, b) ==
    [k \in (DOMAIN a) \cup (DOMAIN b) |-> IF k \in DOMAIN b THEN b[k] ELSE a[k]]

Restrict(m, ks) == [k \in (DOMAIN m) \cap ks |-> m[k]]

Without(m, ks) == [k \in (DOMAIN m) \ ks |-> m[k]]

-----------------------------------------------------------------------------
(* The host store (zustand's vanilla store), at its interface: spec 6,     *)
(* "update(partialOrReplacerOrProcedure, replace?)".                       *)

Replaces == {"true", "false", "absent"}

Truthy(replace) == replace = "true"

\* setState's last step once nextState is known:
\*   state = (replace ?? (typeof nextState !== 'object' || nextState === null))
\*             ? nextState : Object.assign({}, state, nextState)
ZustandSet(state, nextState, replace) ==
    LET whole == IF replace = "absent"
                 THEN nextState.kind \notin {"object", "array"}
                 ELSE Truthy(replace)
    IN IF whole THEN nextState
       ELSE Obj(Assign(Spread(state), Spread(nextState)))

-----------------------------------------------------------------------------
(* Updaters: what a caller hands to the dispatcher.                        *)
(*   plain      a non-callable object with the entries obj                 *)
(*   null, undefined                                                       *)
(*   mutate     a procedure that assigns obj's entries onto the draft,     *)
(*              deletes the keys del from it and returns nothing           *)
(*   produce    a function that returns a new object with the entries obj  *)
(*   throw      a function that raises err                                 *)

Upd(kind, o, d, e) == [kind |-> kind, obj |-> o, del |-> d, err |-> e]

PlainUpd(o) == Upd("plain", o, {}, "none")
NullUpd == Upd("null", NoKeys, {}, "none")
UndefinedUpd == Upd("undefined", NoKeys, {}, "none")
MutateUpd(o, d) == Upd("mutate", o, d, "none")
ProduceUpd(o) == Upd("produce", o, {}, "none")
ThrowUpd(e) == Upd("throw", NoKeys, {}, e)

\* typeof updater === 'function'
IsFunction(u) == u.kind \in {"mutate", "produce", "throw"}

\* updater === null || updater === undefined
IsNullish(u) == u.kind \in {"null", "undefined"}

\* The JavaScript value of a non-callable updater.
UpdValue(u) ==
    CASE u.kind = "plain" -> Obj(u.obj)
      [] u.kind = "null" -> Null
      [] OTHER -> Undefined

-----------------------------------------------------------------------------
(* separateStateAndActions, index.ts:57-88 *)

\* Mutant of the validation: the Array.isArray test is missing.
InvalidInitialNoArrayTest(obj) == obj.kind \notin {"object", "array"}

\* The __DEV__ validation of index.ts:155-162 and 63-74:
\* initialState === null || initialState === undefined, then
\* !obj || typeof obj !== 'object', then Array.isArray(obj).
InvalidInitial(obj) == obj.kind # "object"

\* Variant: no typeof test, every key kept as state.
separateAllState(obj) == [state |-> Spread(obj), actions |-> NoKeys]

\* The for...in loop of lines 76-87.
separateStateAndActions(obj) ==
    LET m == Spread(obj)
    IN [state |-> [k \in {x \in DOMAIN m : ~IsCallable(m[x])} |-> m[k]],
        actions |-> [k \in {x \in DOMAIN m : IsCallable(m[x])} |-> m[k]]]

-----------------------------------------------------------------------------
(* The history engine (the external `travels` package), at its interface:  *)
(* spec 6, README "getControls()", and what the tests observe of it.       *)
(* The engine keeps patches; applied along a linear history they restore   *)
(* the snapshots, which is what `entries` holds: entries[position + 1] is  *)
(* the current state.  In manual-archive mode `pending` says that the last *)
(* entry is still open (temporary patches exist).                          *)

NoEngine ==
    [built |-> FALSE, autoArchive |-> TRUE, maxHistory |-> 0, mutable |-> FALSE,
     initialPatches |-> <<>>, initialPosition |-> 0,
     initialState |-> Undefined, state |-> Undefined, entries |-> <<>>,
     position |-> 0, pending |-> FALSE]

\* A persisted history step: what it assigns going forward (patches) and
\* going back (inversePatches).
Step(fwd, inv) == [fwd |-> fwd, inv |-> inv]

ApplyPatch(s, m) == Obj(Assign(Spread(s), m))

\* The snapshot at position i of a history restored from initialPatches
\* around initialState, which is the snapshot at initialPosition p:
\* patches[j] leads from position j - 1 to position j.
RECURSIVE StateAt(_, _, _, _)
StateAt(initialState, patches, p, i) ==
    IF i = p THEN initialState
    ELSE IF i < p
    THEN ApplyPatch(StateAt(initialState, patches, p, i + 1), patches[i + 1].inv)
    ELSE ApplyPatch(StateAt(initialState, patches, p, i - 1), patches[i].fwd)

InitialEntries(initialState, patches, p) ==
    [i \in 1 .. Len(patches) + 1 |-> StateAt(initialState, patches, p, i - 1)]

\* new Travels(initialState, config)
NewTravels(initialState, config) ==
    [built |-> TRUE, autoArchive |-> config.autoArchive,
     maxHistory |-> config.maxHistory, mutable |-> config.mutable,
     initialPatches |-> config.initialPatches,
     initialPosition |-> config.initialPosition,
     initialState |-> initialState, state |-> initialState,
     entries |-> InitialEntries(initialState, config.initialPatches,
                                config.initialPosition),
     position |-> config.initialPosition, pending |-> FALSE]

\* The engine runs the updater on a draft of its state: a raised exception
\* leaves the state alone, a returned value is the next state, a mutated
\* draft is the next state.
RunUpdater(state, u) ==
    CASE u.kind = "throw" -> [err |-> u.err, state |-> state]
      [] u.kind = "mutate" ->
            [err |-> "none",
             state |-> Obj(Without(Assign(Spread(state), u.obj), u.del))]
      [] u.kind = "produce" -> [err |-> "none", state |-> Obj(u.obj)]
      [] u.kind = "plain" -> [err |-> "none", state |-> Obj(u.obj)]
      [] u.kind = "null" -> [err |-> "none", state |-> Null]
      [] OTHER -> [err |-> "none", state |-> state]

\* More than maxHistory steps: the oldest step is dropped, position 0 stays
\* the initial snapshot (test/index.test.ts:195-218: maxHistory 3, five
\* commits, three back() reach count 0 through a history with a gap).
DropOldest(entries) == <<entries[1]>> \o SubSeq(entries, 3, Len(entries))

Trim(entries, maxHistory) ==
    IF Len(entries) > maxHistory + 1 THEN DropOldest(entries) ELSE entries

\* A new history step holding `next`; the redo branch is discarded.
PushEntry(eng, next) ==
    LET pushed == Append(SubSeq(eng.entries, 1, eng.position + 1), next)
        kept == Trim(pushed, eng.maxHistory)
    IN [eng EXCEPT !.state = next, !.entries = kept,
                   !.position = Len(kept) - 1]

\* travels.setState(updater): [eng, err, emitted], emitted being the
\* snapshots handed to the subscribers, in order.
EngSetState(eng, u) ==
    LET r == RunUpdater(eng.state, u)
    IN IF r.err # "none"
       THEN [eng |-> eng, err |-> r.err, emitted |-> <<>>]
       ELSE LET e == IF eng.autoArchive
                     THEN PushEntry(eng, r.state)
                     ELSE IF eng.pending
                     THEN [eng EXCEPT !.state = r.state,
                                      !.entries[eng.position + 1] = r.state]
                     ELSE [PushEntry(eng, r.state) EXCEPT !.pending = TRUE]
            IN [eng |-> e, err |-> "none", emitted |-> <<r.state>>]

canBack(eng) == eng.position > 0

canForward(eng) ==
    IF ~eng.autoArchive /\ eng.pending
    THEN eng.position < Len(eng.entries) - 2
    ELSE eng.position < Len(eng.entries) - 1

canArchive(eng) == ~eng.autoArchive /\ eng.pending

getHistory(eng) == eng.entries

\* controls.archive()
EngArchive(eng) ==
    IF eng.autoArchive \/ ~eng.pending
    THEN [eng |-> eng, err |-> "none", emitted |-> <<>>]
    ELSE [eng |-> [eng EXCEPT !.pending = FALSE], err |-> "none",
          emitted |-> <<eng.state>>]

\* controls.go(nextPosition): pending changes are archived first, the
\* target is clamped to the history, staying in place emits nothing.
EngGo(eng, nextPosition) ==
    LET a == EngArchive(eng)
        top == Len(a.eng.entries) - 1
        n == IF nextPosition > top THEN top
             ELSE IF nextPosition < 0 THEN 0 ELSE nextPosition
    IN IF n = a.eng.position THEN a
       ELSE [eng |-> [a.eng EXCEPT !.state = a.eng.entries[n + 1],
                                   !.position = n],
             err |-> "none",
             emitted |-> Append(a.emitted, a.eng.entries[n + 1])]

\* controls.back(amount = 1), controls.forward(amount = 1)
EngBack(eng) == EngGo(eng, eng.position - 1)

EngForward(eng) == EngGo(eng, eng.position + 1)

\* controls.reset()
EngReset(eng) ==
    [eng |-> [eng EXCEPT !.state = eng.initialState,
                         !.entries = InitialEntries(eng.initialState,
                                                    eng.initialPatches,
                                                    eng.initialPosition),
                         !.position = eng.initialPosition,
                         !.pending = FALSE],
     err |-> "none", emitted |-> <<eng.initialState>>]

-----------------------------------------------------------------------------
(* Inputs *)

\* What the initializer may return.
InitReturns ==
    { Obj(("count" :> "d0") @@ ("inc" :> "fA")),
      Obj(("count" :> "d1") @@ ("name" :> "d0") @@ ("run" :> "fA")),
      Obj(("name" :> "fB") @@ ("inc" :> "fA")),
      Null, Undefined, Prim, Fn, Arr("0" :> "d0") }

\* What the initializer may raise.
InitErrors == {"EInit"}

\* The objects updates are made of: an existing data key, and a key that
\* was never declared together with a key that names a behavior.
UpdateObjs ==
    { "count" :> "d1",
      ("name" :> "d1") @@ ("inc" :> "fB") }

UpdaterErrors == {"E1", "E2"}

Updaters ==
    {PlainUpd(o) : o \in UpdateObjs}
    \cup {MutateUpd(o, {}) : o \in UpdateObjs}
    \cup {MutateUpd(NoKeys, {"count"})}
    \cup {ProduceUpd(o) : o \in UpdateObjs}
    \cup {ThrowUpd(e) : e \in UpdaterErrors}
    \cup {NullUpd, UndefinedUpd}

\* What the initializer hands to the dispatcher while it runs.
InitUpdaters ==
    {PlainUpd(o) : o \in UpdateObjs} \cup {ProduceUpd("count" :> "d1"), NullUpd}

Options(autoArchive, mutable, patches, p) ==
    [autoArchive |-> autoArchive, maxHistory |-> MaxHistory, mutable |-> mutable,
     initialPatches |-> patches, initialPosition |-> p]

OptionsSet ==
    { Options(TRUE, FALSE, <<>>, 0),
      Options(FALSE, FALSE, <<>>, 0),
      Options(TRUE, TRUE, <<>>, 0) }

\* Options of a store restored from persisted history (README 262-294):
\* one persisted step, the store at its end or at its start.
PersistedPatches == <<Step("count" :> "d1", "count" :> "d0")>>

RestoreOptions ==
    { Options(TRUE, TRUE, PersistedPatches, 1),
      Options(TRUE, FALSE, PersistedPatches, 0),
      Options(FALSE, FALSE, PersistedPatches, 1) }

-----------------------------------------------------------------------------
(* travelImpl, index.ts:94-203 *)

\* Mutants of the callback: a merge into the previous store state, the
\* actions forgotten, the spread order reversed.
SubscribeCallbackMerge(st, acts, state) ==
    ZustandSet(st, Obj(Assign(Spread(state), acts)), "false")

SubscribeCallbackNoActions(st, acts, state) ==
    ZustandSet(st, Obj(Spread(state)), "true")

SubscribeCallbackStateWins(st, acts, state) ==
    ZustandSet(st, Obj(Assign(acts, Spread(state))), "true")

\* The callback of index.ts:180-183:
\*   set({ ...state, ...actions }, true)
SubscribeCallback(st, acts, state) ==
    ZustandSet(st, Obj(Assign(Spread(state), acts)), "true")

\* Mutant of the delivery: only the first notification of a call reaches
\* the store.
DeliverFirst(st, acts, emitted) ==
    IF emitted = <<>> THEN st ELSE SubscribeCallback(st, acts, Head(emitted))

\* The engine's notifications, delivered to the callback in order.
RECURSIVE Deliver(_, _, _)
Deliver(st, acts, emitted) ==
    IF emitted = <<>> THEN st
    ELSE Deliver(SubscribeCallback(st, acts, Head(emitted)), acts, Tail(emitted))

\* Variant: pending changes are republished only once archived.
SyncedWhenArchived(r) ==
    IF subscribed /\ ~canArchive(r.eng)
    THEN Deliver(store, actions, r.emitted)
    ELSE store

\* Variant: the republish is put off, the call returns before it.
SyncedDeferred(r) == store

\* The store after the engine call r.
Synced(r) == IF subscribed THEN Deliver(store, actions, r.emitted) ELSE store

\* Mutants of the routing: the merge branch missing, the replace branch
\* missing.
RouteNoMerge(u, replace) == u

RouteNoReplace(u, replace) ==
    IF IsFunction(u) THEN u ELSE MutateUpd(Spread(UpdValue(u)), {})

\* Variant of the routing: the typeof updater === 'function' test missing.
RouteNoFunction(u, replace) ==
    IF Truthy(replace) THEN u
    ELSE MutateUpd(Spread(UpdValue(u)), {})

\* Variant of the routing: what a function returns is merged into the draft.
RouteMergeProduced(u, replace) ==
    IF u.kind = "produce" THEN MutateUpd(u.obj, {})
    ELSE IF IsFunction(u) THEN u
    ELSE IF Truthy(replace) THEN u
    ELSE MutateUpd(Spread(UpdValue(u)), {})

\* index.ts:125-139: what travelSet hands to travels.setState.
Route(u, replace) ==
    IF IsFunction(u) THEN u
    ELSE IF Truthy(replace) THEN u
    ELSE MutateUpd(Spread(UpdValue(u)), {})

\* Mutant of the catch block: the error is logged and swallowed.
CatchSwallow(r) == [r EXCEPT !.err = "none"]

\* index.ts:141-148: the catch block logs and re-throws the same error.
Catch(r) == r

\* The branch of travelSet a call takes, index.ts:110-139.
Branch(u, replace) ==
    IF isInitializing THEN "bypass"
    ELSE IF dev /\ IsNullish(u) THEN "rejected"
    ELSE IF IsFunction(u) THEN "function"
    ELSE IF Truthy(replace) THEN "replace"
    ELSE "merge"

\* Mutant of travelSet: the updater is not validated.
ActiveSetUnchecked(eng, u, replace) ==
    Catch(EngSetState(eng, Route(u, replace)))

\* Mutant of travelSet: the update is not handed to the engine.
ActiveSetDropped(eng, u, replace) ==
    [eng |-> eng, err |-> "none", emitted |-> <<>>]

\* travelSet past the bypass, index.ts:114-148.
ActiveSet(eng, u, replace) ==
    IF dev /\ IsNullish(u)
    THEN [eng |-> eng, err |-> "NullUpdater", emitted |-> <<>>]
    ELSE Catch(EngSetState(eng, Route(u, replace)))

\* set(updater, replace) on the host store, index.ts:111.
NativeSet(st, u, replace) ==
    ZustandSet(st, IF u.kind = "produce" THEN Obj(u.obj) ELSE UpdValue(u), replace)

\* Mutant of travelSet: the dispatcher bypasses the engine in every phase.
travelSetBypassing(u, replace) ==
    [eng |-> travels, store |-> NativeSet(store, u, replace),
     err |-> "none", emits |-> 0]

\* Variant of travelSet: the null check precedes the isInitializing test.
travelSetCheckedFirst(u, replace) ==
    IF dev /\ IsNullish(u)
    THEN [eng |-> travels, store |-> store, err |-> "InvalidUpdater", emits |-> 0]
    ELSE IF isInitializing
    THEN [eng |-> travels, store |-> NativeSet(store, u, replace),
          err |-> "none", emits |-> 0]
    ELSE LET r == ActiveSet(travels, u, replace)
         IN [eng |-> r.eng, store |-> Synced(r), err |-> r.err,
             emits |-> Len(r.emitted)]

\* travelSet, index.ts:105-149: the engine and the store after the call,
\* the error it raised and the emissions it caused.
travelSet(u, replace) ==
    IF isInitializing
    THEN [eng |-> travels, store |-> NativeSet(store, u, replace),
          err |-> "none", emits |-> 0]
    ELSE LET r == ActiveSet(travels, u, replace)
         IN [eng |-> r.eng, store |-> Synced(r), err |-> r.err,
             emits |-> Len(r.emitted)]

\* Mutant: the options are not handed to the engine, which then runs with
\* its defaults (README: maxHistory 10, autoArchive true).
EngineConfigDefaults(opts) ==
    [autoArchive |-> TRUE, maxHistory |-> 10, mutable |-> FALSE,
     initialPatches |-> <<>>, initialPosition |-> 0]

\* Mutant: the engine is always configured for auto-archive.
EngineConfigAuto(opts) == [opts EXCEPT !.mutable = FALSE, !.autoArchive = TRUE]

\* index.ts:171-174: { ...options, mutable: false }
\* Variant: the caller's options handed over as they are.
EngineConfigAsGiven(opts) == opts

EngineConfig(opts) == [opts EXCEPT !.mutable = FALSE]

\* index.ts:155-166: does the returned value fail the __DEV__ validation?
Rejected(v) == dev /\ InvalidInitial(v)

\* Mutant: the engine is built from the store's state, not from the
\* partition of the returned value.
DataStateOfStore(v) == Obj(separateStateAndActions(store).state)

\* Mutant: the engine is built from the whole returned value, behavior
\* entries included.
DataStateWhole(v) == v

\* index.ts:165-171: the dataState handed to new Travels.
DataState(v) == Obj(separateStateAndActions(v).state)

\* Mutant of travelImpl's catch block: every failure of the construction is
\* reported as an invalid initial state.
InitCatchAsInvalid(e) == "InvalidInitialState"

\* index.ts:192-202: travelImpl's catch block logs and re-throws the same
\* error.
InitCatch(e) == e

\* Mutant of the construction: the flag is cleared once everything is wired.
WiringStepsActiveLast ==
    <<"partition", "engine", "subscribe", "controls", "active", "return">>

\* index.ts:165-191, the steps of travelImpl after the initializer returned,
\* in the order of the code: separateStateAndActions (165), new Travels
\* (171), isInitializing = false (177), travels.subscribe (180),
\* Object.assign(store, { getControls }) (186), return initialState (191).
WiringSteps ==
    <<"partition", "engine", "active", "subscribe", "controls", "return">>

\* A record of the last call: the operation, the branch of travelSet it
\* took, the error it raised, the engine emissions it caused, and (for the
\* construction) the dispatcher calls the initializer made.
Call(op, route, err, emits, inits) ==
    [op |-> op, route |-> route, err |-> err, emits |-> emits, inits |-> inits]

\* Did the call reach travels.setState?
Reached(c) == c.route \in {"function", "replace", "merge"}

\* The bookkeeping of archive points.
NoArch == [m |-> 0, backed |-> FALSE]

ArchAfter(op) ==
    CASE op = "archive" /\ ups >= 1 /\ backs = 0 -> [m |-> ups, backed |-> FALSE]
      [] op = "back" /\ arch.m > 0 /\ ~arch.backed -> [arch EXCEPT !.backed = TRUE]
      [] OTHER -> NoArch

\* The bookkeeping of back()/forward() round trips.
NoTrip == [k |-> 0, j |-> 0, snap |-> Undefined]

TripAfter(op, eng) ==
    CASE op = "back" /\ eng.position < travels.position ->
            IF trip.k > 0 /\ trip.j = 0
            THEN [trip EXCEPT !.k = trip.k + 1]
            ELSE [k |-> 1, j |-> 0, snap |-> store]
      [] op = "forward" /\ eng.position > travels.position
            /\ trip.j < trip.k ->
            [trip EXCEPT !.j = trip.j + 1]
      [] OTHER -> NoTrip

\* The closure state and host state of a store created from the same state
\* creator that is not the one being operated on; here, one not yet created.
NoStore ==
    [pc |-> "uninit", isInitializing |-> TRUE, actions |-> NoKeys,
     travels |-> NoEngine, subscribed |-> FALSE, hasControls |-> FALSE,
     store |-> Undefined, initRet |-> Undefined, wiring |-> <<>>]

-----------------------------------------------------------------------------
(* Actions *)

Init ==
    /\ dev \in BOOLEAN
    /\ options \in OptionsSet
    /\ pc = "uninit"
    /\ isInitializing = TRUE
    /\ actions = NoKeys
    /\ travels = NoEngine
    /\ subscribed = FALSE
    /\ hasControls = FALSE
    /\ store = Undefined
    /\ initRet = Undefined
    /\ wiring = <<>>
    /\ last = Call("none", "none", "none", 0, 0)
    /\ ninit = 0
    /\ ncommits = 0
    /\ ups = 0
    /\ backs = 0
    /\ trip = NoTrip
    /\ arch = NoArch
    /\ other = NoStore

\* create(travel(initializer, options)): the state creator is entered and
\* calls the initializer (index.ts:153).
Create ==
    /\ pc = "uninit"
    /\ pc' = "initializing"
    /\ wiring' = <<"initializer">>
    /\ UNCHANGED <<other, dev, options, isInitializing, actions, travels, subscribed,
                   hasControls, store, initRet, last, ninit, ncommits,
                   ups, backs, trip, arch>>

\* The running initializer calls the dispatcher.
InitSet(u, replace) ==
    /\ pc = "initializing"
    /\ ninit < MaxInitSets
    /\ LET r == travelSet(u, replace)
       IN /\ travels' = r.eng
          /\ store' = r.store
          /\ last' = Call("initset", Branch(u, replace), r.err, r.emits, 0)
    /\ ninit' = ninit + 1
    /\ UNCHANGED <<other, dev, options, pc, isInitializing, actions, subscribed,
                   hasControls, initRet, wiring, ncommits, ups, backs, trip, arch>>

\* The initializer raises: travelImpl's catch re-throws (index.ts:192-202).
InitializerThrows(e) ==
    /\ pc = "initializing"
    /\ pc' = "failed"
    /\ last' = Call("create", "none", InitCatch(e), 0, ninit)
    /\ ninit' = 0
    /\ UNCHANGED <<other, dev, options, isInitializing, actions, travels, subscribed,
                   hasControls, store, initRet, wiring, ncommits,
                   ups, backs, trip, arch>>

\* The initializer returns v: the rest of travelImpl (index.ts:155-191),
\* then the host store takes the returned value as its state.
InitializerReturns(v) ==
    /\ pc = "initializing"
    /\ initRet' = v
    /\ IF Rejected(v)
       THEN /\ pc' = "failed"
            /\ last' = Call("create", "none", InitCatch("InvalidInitialState"),
                             0, ninit)
            /\ UNCHANGED <<isInitializing, actions, travels, subscribed,
                           hasControls, store, wiring>>
       ELSE LET parts == separateStateAndActions(v)
            IN /\ actions' = parts.actions
               /\ travels' = NewTravels(DataState(v), EngineConfig(options))
               /\ isInitializing' = FALSE
               /\ subscribed' = TRUE
               /\ hasControls' = TRUE
               /\ store' = v
               /\ wiring' = wiring \o WiringSteps
               /\ pc' = "live"
               /\ last' = Call("create", "none", "none", 0, ninit)
    /\ ninit' = 0
    /\ UNCHANGED <<other, dev, options, ncommits, ups, backs, trip, arch>>

\* A caller's action dispatches an update (Active phase).
TravelSet(u, replace) ==
    /\ pc = "live"
    /\ ncommits < MaxCommits
    /\ LET r == travelSet(u, replace)
       IN /\ travels' = r.eng
          /\ store' = r.store
          /\ ncommits' = IF r.emits > 0 THEN ncommits + 1 ELSE ncommits
          /\ last' = Call("set", Branch(u, replace), r.err, r.emits, 0)
          /\ IF r.err # "none"
             THEN UNCHANGED <<ups, backs>>
             ELSE /\ ups' = IF ups >= 0 /\ backs = 0 THEN ups + 1 ELSE -1
                  /\ backs' = 0
    /\ trip' = NoTrip
    /\ arch' = NoArch
    /\ UNCHANGED <<other, dev, options, pc, isInitializing, actions, subscribed,
                   hasControls, initRet, wiring, ninit>>

\* Variant of getControls: the controls of an engine of their own.
getControlsDetached == NewTravels(travels.initialState, EngineConfig(options))

\* index.ts:186-188: getControls: () => travels.getControls(), the control
\* surface of the engine the closure holds.
getControls == travels

\* A call through store.getControls().
Control(op, r) ==
    /\ pc = "live"
    /\ hasControls
    /\ travels' = r.eng
    /\ store' = Synced(r)
    /\ last' = Call(op, "none", r.err, Len(r.emitted), 0)
    /\ ups' = IF op = "back" /\ ups >= 0 /\ backs < ups THEN ups ELSE -1
    /\ backs' = IF op = "back" /\ ups >= 0 /\ backs < ups THEN backs + 1 ELSE 0
    /\ trip' = TripAfter(op, r.eng)
    /\ arch' = ArchAfter(op)
    /\ UNCHANGED <<other, dev, options, pc, isInitializing, actions, subscribed,
                   hasControls, initRet, wiring, ninit, ncommits>>

Back == Control("back", EngBack(getControls))

Forward == Control("forward", EngForward(getControls))

Go(n) == Control("go", EngGo(getControls, n))

Reset == Control("reset", EngReset(getControls))

Archive == ~travels.autoArchive /\ Control("archive", EngArchive(getControls))

Next ==
    \/ Create
    \/ \E u \in InitUpdaters, replace \in Replaces : InitSet(u, replace)
    \/ \E e \in InitErrors : InitializerThrows(e)
    \/ \E v \in InitReturns : InitializerReturns(v)
    \/ \E u \in Updaters, replace \in Replaces : TravelSet(u, replace)
    \/ Back
    \/ Forward
    \/ \E n \in -1 .. MaxHistory + 1 : Go(n)
    \/ Reset
    \/ Archive

Spec == Init /\ [][Next]_vars

\* The same store, configured with persisted history.
InitRestore ==
    /\ dev \in BOOLEAN
    /\ options \in RestoreOptions
    /\ pc = "uninit"
    /\ isInitializing = TRUE
    /\ actions = NoKeys
    /\ travels = NoEngine
    /\ subscribed = FALSE
    /\ hasControls = FALSE
    /\ store = Undefined
    /\ initRet = Undefined
    /\ wiring = <<>>
    /\ last = Call("none", "none", "none", 0, 0)
    /\ ninit = 0
    /\ ncommits = 0
    /\ ups = 0
    /\ backs = 0
    /\ trip = NoTrip
    /\ arch = NoArch
    /\ other = NoStore

SpecRestore == InitRestore /\ [][Next]_vars

-----------------------------------------------------------------------------
(* A store listener that dispatches an update while it is being notified. *)

\* The listener runs inside the host store's set, that is inside the
\* subscribe callback of index.ts:180-183, inside the engine's notification,
\* inside the outer travelSet: the outer snapshot is in the store when the
\* inner travelSet starts, and the inner emissions are republished before
\* the outer call returns.
\* Variant: the outer republish lands after the inner ones.
NestedStoreOuterLast(st, acts, first, rest) ==
    SubscribeCallback(Deliver(st, acts, rest), acts, first)

NestedStore(st, acts, first, rest) ==
    Deliver(SubscribeCallback(st, acts, first), acts, rest)

ReentrantUpdaters ==
    { PlainUpd("count" :> "d1"),
      ProduceUpd(("name" :> "d1") @@ ("inc" :> "fB")),
      ThrowUpd("E1") }

\* The history of a re-entrant store has room for both commits.
ReentrantOptions ==
    { [Options(TRUE, FALSE, <<>>, 0) EXCEPT !.maxHistory = MaxHistory + 1],
      [Options(FALSE, FALSE, <<>>, 0) EXCEPT !.maxHistory = MaxHistory + 1] }

InitReentrant ==
    /\ dev \in BOOLEAN
    /\ options \in ReentrantOptions
    /\ pc = "uninit"
    /\ isInitializing = TRUE
    /\ actions = NoKeys
    /\ travels = NoEngine
    /\ subscribed = FALSE
    /\ hasControls = FALSE
    /\ store = Undefined
    /\ initRet = Undefined
    /\ wiring = <<>>
    /\ last = Call("none", "none", "none", 0, 0)
    /\ ninit = 0
    /\ ncommits = 0
    /\ ups = 0
    /\ backs = 0
    /\ trip = NoTrip
    /\ arch = NoArch
    /\ other = NoStore

\* travelSet(u1, replace1) whose republish makes a store listener call
\* travelSet(u2, replace2).  An outer call that fails notifies nobody; an
\* inner call that fails raises through the outer one, whose commit stays.
NestedSet(u1, replace1, u2, replace2) ==
    /\ pc = "live"
    /\ subscribed
    /\ ncommits + 2 <= MaxCommits
    /\ LET r1 == ActiveSet(travels, u1, replace1)
           r2 == ActiveSet(r1.eng, u2, replace2)
           n == IF r1.emitted = <<>> THEN 0 ELSE 1 + Len(r2.emitted)
       IN /\ IF r1.emitted = <<>>
             THEN /\ travels' = r1.eng
                  /\ store' = store
                  /\ last' = Call("nested", Branch(u1, replace1), r1.err, 0, 0)
             ELSE /\ travels' = r2.eng
                  /\ store' = NestedStore(store, actions, Head(r1.emitted),
                                          r2.emitted)
                  /\ last' = Call("nested", Branch(u2, replace2), r2.err, n, 0)
          /\ ncommits' = ncommits + n
          /\ ups' = IF n = 0 THEN ups
                    ELSE IF ups >= 0 /\ backs = 0 THEN ups + n ELSE -1
          /\ backs' = IF n = 0 THEN backs ELSE 0
    /\ trip' = NoTrip
    /\ arch' = NoArch
    /\ UNCHANGED <<other, dev, options, pc, isInitializing, actions, subscribed,
                   hasControls, initRet, wiring, ninit>>

NextReentrant ==
    \/ Next
    \/ \E u1 \in ReentrantUpdaters, u2 \in ReentrantUpdaters,
          replace1 \in {"absent", "true"}, replace2 \in {"absent", "true"} :
          NestedSet(u1, replace1, u2, replace2)

SpecReentrant == InitReentrant /\ [][NextReentrant]_vars

-----------------------------------------------------------------------------
(* Two stores created from one travel(initializer, options) state creator. *)
(* The actions operate on one of them; Switch turns to the other.          *)

\* Variant: travels, actions and isInitializing declared at module level,
\* one variable for every store.
ModuleLevel(own, shared) == shared

\* index.ts:99-102: the three variables are declared inside the state
\* creator (set, get, store) => { ... }, once per store.
PerStore(own, shared) == own

\* The store being operated on.
Own ==
    [pc |-> pc, isInitializing |-> isInitializing, actions |-> actions,
     travels |-> travels, subscribed |-> subscribed,
     hasControls |-> hasControls, store |-> store, initRet |-> initRet,
     wiring |-> wiring]

\* The caller turns to the other store (between calls: nothing is running).
Switch ==
    /\ pc # "initializing"
    /\ other' = Own
    /\ pc' = other.pc
    /\ isInitializing' = PerStore(other.isInitializing, isInitializing)
    /\ actions' = PerStore(other.actions, actions)
    /\ travels' = PerStore(other.travels, travels)
    /\ subscribed' = other.subscribed
    /\ hasControls' = other.hasControls
    /\ store' = other.store
    /\ initRet' = other.initRet
    /\ wiring' = other.wiring
    /\ last' = Call("switch", "none", "none", 0, 0)
    /\ ups' = -1
    /\ backs' = 0
    /\ trip' = NoTrip
    /\ arch' = NoArch
    /\ UNCHANGED <<dev, options, ninit, ncommits>>

TwoReturns == {Obj(("count" :> "d0") @@ ("inc" :> "fA")), Null}

TwoUpdaters == {PlainUpd("count" :> "d1"), ThrowUpd("E1")}

TwoOptions == {Options(TRUE, FALSE, <<>>, 0)}

InitTwo ==
    /\ dev \in BOOLEAN
    /\ options \in TwoOptions
    /\ pc = "uninit"
    /\ isInitializing = TRUE
    /\ actions = NoKeys
    /\ travels = NoEngine
    /\ subscribed = FALSE
    /\ hasControls = FALSE
    /\ store = Undefined
    /\ initRet = Undefined
    /\ wiring = <<>>
    /\ last = Call("none", "none", "none", 0, 0)
    /\ ninit = 0
    /\ ncommits = 0
    /\ ups = 0
    /\ backs = 0
    /\ trip = NoTrip
    /\ arch = NoArch
    /\ other = NoStore

NextTwo ==
    \/ Create
    \/ \E e \in InitErrors : InitializerThrows(e)
    \/ \E v \in TwoReturns : InitializerReturns(v)
    \/ \E u \in TwoUpdaters, replace \in {"absent", "true"} : TravelSet(u, replace)
    \/ Back
    \/ Forward
    \/ Reset
    \/ Switch

SpecTwo == InitTwo /\ [][NextTwo]_vars

\* The store handle is zustand's own: travelImpl hands it to the initializer
\* (index.ts:153) and only adds getControls to it (index.ts:186), so its
\* setState is still the host store's untracked update.  A caller, or an
\* action through the initializer's third argument, may call it directly.
ApiUpdaters == {PlainUpd("count" :> "d1")}

ApiSetState(u, replace) ==
    /\ pc = "live"
    /\ store' = NativeSet(store, u, replace)
    /\ last' = Call("api", "none", "none", 0, 0)
    /\ UNCHANGED <<other, dev, options, pc, isInitializing, actions, travels,
                   subscribed, hasControls, initRet, wiring, ninit, ncommits,
                   ups, backs, trip, arch>>

NextOpen ==
    \/ Next
    \/ \E u \in ApiUpdaters, replace \in {"absent", "true"} :
          ApiSetState(u, replace)

\* The store with its handle's setState in use as well.
SpecOpen == Init /\ [][NextOpen]_vars

-----------------------------------------------------------------------------
(* What the claims speak of *)

Live == pc = "live"

\* The BehaviorSet and the initial DataSnapshot: the callable and the
\* non-callable entries of what the initializer returned.
Behavior == [k \in {x \in DOMAIN Spread(initRet) : IsCallable(Spread(initRet)[x])}
                |-> Spread(initRet)[k]]

InitialData == [k \in {x \in DOMAIN Spread(initRet) : ~IsCallable(Spread(initRet)[x])}
                   |-> Spread(initRet)[k]]

\* The engine's current snapshot, the store's entries, and the store's data
\* (its entries that are not behavior entries).
Snapshot == Spread(travels.state)

StoreObj == Spread(store)

StoreData == Without(StoreObj, DOMAIN Behavior)

\* Every behavior entry is in the map m, with the reference the initializer
\* returned.
BehaviorIntact(m) ==
    \A k \in DOMAIN Behavior : k \in DOMAIN m /\ m[k] = Behavior[k]

-----------------------------------------------------------------------------
(* C1 *)

\* C1 as stated: after every engine emission in the Active phase the store
\* is a plain object in which every key of the engine's snapshot carries
\* the snapshot's value, every behavior key is present, and no other key
\* exists.  Violated when a snapshot key names a behavior entry.
C1_AsStated ==
    [][(pc = "live" /\ last'.emits > 0) =>
          /\ store'.kind = "object"
          /\ \A k \in DOMAIN Snapshot' :
                k \in DOMAIN StoreObj' /\ StoreObj'[k] = Snapshot'[k]
          /\ DOMAIN Behavior \subseteq DOMAIN StoreObj'
          /\ DOMAIN StoreObj' \subseteq (DOMAIN Snapshot' \cup DOMAIN Behavior)]_vars

\* C1, amended: after every engine emission in the Active phase the store is
\* a plain object holding exactly the keys of the engine's snapshot and of
\* the BehaviorSet; every behavior key carries the reference captured at
\* initialization, every snapshot key that is not a behavior key carries the
\* snapshot's value, and nothing of the previous store state survives.
C1_Republish ==
    [][(pc = "live" /\ last'.emits > 0) =>
          /\ store'.kind = "object"
          /\ \A k \in DOMAIN Snapshot' \ DOMAIN Behavior :
                k \in DOMAIN StoreObj' /\ StoreObj'[k] = Snapshot'[k]
          /\ BehaviorIntact(StoreObj')
          /\ DOMAIN StoreObj' = (DOMAIN Snapshot' \cup DOMAIN Behavior)]_vars

\* A key that a commit introduced has been dropped from the store by the
\* emission of a back().
C1_Witness ==
    /\ Live
    /\ last.op = "back"
    /\ last.emits > 0
    /\ Behavior # NoKeys
    /\ \E i \in 1 .. Len(travels.entries) :
          (DOMAIN Spread(travels.entries[i])) \ (DOMAIN Snapshot \cup DOMAIN Behavior) # {}
    /\ DOMAIN StoreObj = (DOMAIN Snapshot \cup DOMAIN Behavior)

-----------------------------------------------------------------------------
(* C2 *)

\* C2: in every state of a constructed store (right after construction,
\* after updates, after navigations) each behavior key of the store holds
\* the reference the initializer returned.
C2_BehaviorIdentity == Live => BehaviorIntact(StoreObj)

\* After an update wrote another function under a behavior's key, and a
\* navigation.
C2_Witness ==
    /\ Live
    /\ Behavior # NoKeys
    /\ last.op \in {"back", "forward", "go", "reset"}
    /\ last.emits > 0
    /\ \E i \in 1 .. Len(travels.entries) :
          \E k \in DOMAIN Behavior :
             /\ k \in DOMAIN Spread(travels.entries[i])
             /\ Spread(travels.entries[i])[k] # Behavior[k]

-----------------------------------------------------------------------------
(* C3 *)

\* C3: in auto-archive mode, after N successful updates followed by N
\* back() calls and nothing else, the store's data equals the initial
\* DataSnapshot and canBack() is false.
C3_UndoRoundTrip ==
    (Live /\ travels.autoArchive /\ ups >= 0 /\ backs = ups) =>
        /\ StoreData = InitialData
        /\ ~canBack(travels)

\* More updates than maxHistory were made and undone.
C3_Witness ==
    /\ Live
    /\ travels.autoArchive
    /\ ups > travels.maxHistory
    /\ backs = ups
    /\ InitialData # NoKeys

-----------------------------------------------------------------------------
(* C4 *)

\* C4: after k effective back() calls followed by k effective forward()
\* calls, with no other call in between, the store is what it was before
\* the first back(), behavior entries included.
C4_RedoRoundTrip ==
    (Live /\ trip.k > 0 /\ trip.j = trip.k) =>
        /\ store = trip.snap
        /\ BehaviorIntact(StoreObj)

C4_Witness ==
    /\ Live
    /\ trip.k > 0
    /\ trip.j = trip.k
    /\ Behavior # NoKeys
    /\ ncommits > 0

-----------------------------------------------------------------------------
(* C5 *)

Falsy == {"false", "absent"}

\* C5: in the Active phase, dispatching a plain object P with replace falsy
\* leaves the engine and the store exactly as dispatching, from the same
\* state, a draft procedure that assigns P's entries would; in the engine's
\* data the keys of P take P's values and every other key keeps its value,
\* and every behavior entry of the store is the same reference.
C5_MergeEquivalence ==
    [][\A o \in UpdateObjs, replace \in Falsy :
          TravelSet(PlainUpd(o), replace) =>
             LET proc == travelSet(MutateUpd(o, {}), replace)
             IN /\ travels' = proc.eng
                /\ store' = proc.store
                /\ last'.err = proc.err
                /\ last'.emits = proc.emits
                /\ \A k \in DOMAIN o : k \in DOMAIN Snapshot' /\ Snapshot'[k] = o[k]
                /\ \A k \in DOMAIN Snapshot \ DOMAIN o :
                      k \in DOMAIN Snapshot' /\ Snapshot'[k] = Snapshot[k]
                /\ DOMAIN Snapshot' = DOMAIN Snapshot \cup DOMAIN o
                /\ BehaviorIntact(StoreObj')]_vars

\* A merge that kept a data key it does not name.
C5_Witness ==
    /\ Live
    /\ last.op = "set"
    /\ last.route = "merge"
    /\ last.emits = 1
    /\ Behavior # NoKeys
    /\ \E o \in UpdateObjs :
          /\ DOMAIN o \subseteq DOMAIN Snapshot
          /\ DOMAIN Snapshot \ DOMAIN o # {}
          /\ \A k \in DOMAIN o : Snapshot[k] = o[k]

-----------------------------------------------------------------------------
(* C6 *)

\* C6: in the Active phase, dispatching a plain object V with replace = true
\* makes the engine's data exactly V and the store exactly V's entries under
\* the behavior entries: the store's data is V without the keys that name a
\* behavior entry, so every data key not in V is dropped and the keys of V
\* never declared are added, and every behavior entry is present and
\* unchanged.
C6_Replacement ==
    [][\A o \in UpdateObjs :
          TravelSet(PlainUpd(o), "true") =>
             /\ Snapshot' = o
             /\ store' = Obj(Assign(o, Behavior))
             /\ StoreData' = Without(o, DOMAIN Behavior)
             /\ BehaviorIntact(StoreObj')]_vars

\* A replacement that dropped a data key and added an undeclared one.
C6_Witness ==
    /\ Live
    /\ last.op = "set"
    /\ last.route = "replace"
    /\ Behavior # NoKeys
    /\ DOMAIN InitialData \ DOMAIN StoreData # {}
    /\ DOMAIN StoreData \ DOMAIN InitialData # {}
    /\ \E o \in UpdateObjs : Snapshot = o

-----------------------------------------------------------------------------
(* C7 *)

\* C7: whatever dispatcher calls the initializer made while it ran, right
\* after construction the engine is at position 0 with a history of one
\* entry, canBack() and canForward() are false, and the engine's initial
\* snapshot is the data part of what the initializer returned.
C7_InitializationBypass ==
    [][(pc = "initializing" /\ pc' = "live") =>
          /\ travels'.built
          /\ travels'.position = 0
          /\ Len(getHistory(travels')) = 1
          /\ ~canBack(travels')
          /\ ~canForward(travels')
          /\ travels'.state = Obj(InitialData')
          /\ travels'.initialState = Obj(InitialData')]_vars

\* Constructed by an initializer that called the dispatcher while it ran.
C7_Witness ==
    /\ Live
    /\ last.op = "create"
    /\ last.inits > 0
    /\ InitialData # NoKeys
    /\ ~canBack(travels)

-----------------------------------------------------------------------------
(* C8 *)

\* C8: in the Active phase, a callable updater that raises e makes the
\* dispatcher raise e, and leaves the store and the engine as they were.
C8_UpdaterFailure ==
    [][\A e \in UpdaterErrors, replace \in Replaces :
          TravelSet(ThrowUpd(e), replace) =>
             /\ last'.err = e
             /\ last'.emits = 0
             /\ store' = store
             /\ travels' = travels]_vars

\* A failed update after a committed one: the store still shows the commit.
C8_Witness ==
    /\ Live
    /\ last.op = "set"
    /\ last.err = "E2"
    /\ ncommits > 0
    /\ StoreObj = Assign(Snapshot, Behavior)

-----------------------------------------------------------------------------
(* C9 *)

\* C9 as stated: a null or undefined updater makes the dispatcher raise
\* NullUpdater before travels.setState is reached, the store unchanged.
\* Violated in a build without __DEV__.
C9_AsStated ==
    [][\A u \in {NullUpd, UndefinedUpd}, replace \in Replaces :
          TravelSet(u, replace) =>
             /\ last'.err = "NullUpdater"
             /\ ~Reached(last')
             /\ store' = store]_vars

\* C9, amended: in a development build (__DEV__ true) a null or undefined
\* updater makes the Active-phase dispatcher raise NullUpdater before
\* travels.setState is reached, the store and the engine unchanged.
C9_NullUpdater ==
    [][\A u \in {NullUpd, UndefinedUpd}, replace \in Replaces :
          (dev /\ TravelSet(u, replace)) =>
             /\ last'.err = "NullUpdater"
             /\ ~Reached(last')
             /\ last'.emits = 0
             /\ store' = store
             /\ travels' = travels]_vars

C9_Witness ==
    /\ Live
    /\ dev
    /\ last.op = "set"
    /\ last.err = "NullUpdater"
    /\ last.route = "rejected"

-----------------------------------------------------------------------------
(* C10 *)

\* null, undefined, a primitive, a function, an array
NotPlainObjects == {v \in InitReturns : v.kind # "object"}

\* C10 as stated: an initializer that returns a value that is not a plain
\* non-array object makes the construction fail with InvalidInitialState,
\* with no engine, no subscription and no getControls.  Violated in a build
\* without __DEV__.
C10_AsStated ==
    [][\A v \in NotPlainObjects :
          InitializerReturns(v) =>
             /\ pc' = "failed"
             /\ last'.err = "InvalidInitialState"
             /\ ~travels'.built
             /\ ~subscribed'
             /\ ~hasControls']_vars

\* C10, amended: in a development build (__DEV__ true) an initializer that
\* returns null, undefined, a primitive, a function or an array makes the
\* construction fail with InvalidInitialState, with no engine constructed,
\* no subscription installed and no getControls attached.
C10_InvalidInitialState ==
    [][\A v \in NotPlainObjects :
          (dev /\ InitializerReturns(v)) =>
             /\ pc' = "failed"
             /\ last'.err = "InvalidInitialState"
             /\ ~travels'.built
             /\ ~subscribed'
             /\ ~hasControls'
             /\ isInitializing']_vars

C10_Witness ==
    /\ dev
    /\ pc = "failed"
    /\ last.err = "InvalidInitialState"
    /\ initRet.kind = "array"
    /\ ~travels.built

-----------------------------------------------------------------------------
(* C11 *)

\* The construction failed and left nothing wired: no engine, no
\* subscription, no getControls, the flag still set.
NothingWired(err) ==
    /\ pc' = "failed"
    /\ last'.err = err
    /\ ~travels'.built
    /\ ~subscribed'
    /\ ~hasControls'
    /\ isInitializing'

Arrays == {v \in InitReturns : v.kind = "array"}

\* C11 as stated: an initializer that throws, or that returns an array,
\* makes the construction fail with InvalidInitialState, nothing wired.
\* Violated by a throwing initializer (its own error is re-thrown) and by
\* an array in a build without __DEV__.
C11_AsStated ==
    [][/\ \A e \in InitErrors :
             InitializerThrows(e) => NothingWired("InvalidInitialState")
       /\ \A v \in Arrays :
             InitializerReturns(v) => NothingWired("InvalidInitialState")]_vars

\* C11, amended: an initializer that throws makes the construction fail with
\* the very error it raised; an initializer that returns an array makes it
\* fail with InvalidInitialState in a development build; either way no
\* engine is constructed, no subscription installed, no getControls
\* attached, the store never becomes Active, and a failed construction
\* stays failed.
C11_InitializerFailure ==
    [][/\ \A e \in InitErrors : InitializerThrows(e) => NothingWired(e)
       /\ \A v \in Arrays :
             (dev /\ InitializerReturns(v)) => NothingWired("InvalidInitialState")
       /\ pc = "failed" => pc' = "failed"]_vars

\* The initializer called the dispatcher and then threw.
C11_Witness ==
    /\ pc = "failed"
    /\ last.op = "create"
    /\ last.err \in InitErrors
    /\ last.inits > 0
    /\ ~travels.built
    /\ ~hasControls

-----------------------------------------------------------------------------
(* C12 *)

\* C12: in a store configured with maxHistory = K the engine never holds
\* more than K + 1 navigable entries (the current one included), its
\* position never exceeds K, and a back() that moves goes back exactly one
\* position, so at most K consecutive back() steps succeed before
\* canBack() is false.
C12_HistoryCap ==
    [][pc' = "live" =>
          /\ Len(getHistory(travels')) <= options.maxHistory + 1
          /\ travels'.position <= options.maxHistory
          /\ travels'.position < Len(getHistory(travels'))
          /\ (Back /\ last'.emits > 0 /\ ~canArchive(travels)) =>
                 /\ canBack(travels)
                 /\ travels'.position = travels.position - 1
          /\ (Back /\ ~canBack(travels) /\ ~canArchive(travels)) =>
                 travels' = travels]_vars

\* More commits than maxHistory were made, one after the other, and the
\* history is full.
C12_Witness ==
    /\ Live
    /\ last.op = "set"
    /\ ups > options.maxHistory
    /\ travels.position = options.maxHistory
    /\ Len(getHistory(travels)) = options.maxHistory + 1

-----------------------------------------------------------------------------
(* C13 *)

-----------------------------------------------------------------------------
(* C14 *)

\* C14: in a store configured for manual archive, the m >= 1 commits made
\* on a fresh store are one undo step: while they are pending canBack() is
\* already true (and the history has one step); archive() closes the step
\* without changing the data; one back() after it leaves the store's data
\* equal to the initial data, the behavior entries intact.
C14_ManualArchive ==
    (Live /\ ~options.autoArchive) =>
       /\ (ups >= 1 /\ backs = 0) =>
              /\ canBack(travels)
              /\ canArchive(travels)
              /\ travels.position = 1
              /\ Len(getHistory(travels)) = 2
       /\ (arch.m > 0 /\ ~arch.backed) =>
              /\ canBack(travels)
              /\ ~canArchive(travels)
              /\ travels.position = 1
              /\ Len(getHistory(travels)) = 2
              /\ StoreData = Without(Snapshot, DOMAIN Behavior)
       /\ (arch.m > 0 /\ arch.backed) =>
              /\ StoreData = InitialData
              /\ BehaviorIntact(StoreObj)
              /\ travels.position = 0
              /\ ~canBack(travels)

\* Two commits, archive(), one back(): the store is back at the initial
\* data, which the commits had changed.
C14_Witness ==
    /\ Live
    /\ ~options.autoArchive
    /\ arch.m = 2
    /\ arch.backed
    /\ last.op = "back"
    /\ StoreData = InitialData
    /\ Len(getHistory(travels)) = 2
    /\ getHistory(travels)[2].kind = "object"
    /\ Spread(getHistory(travels)[2]) # InitialData

-----------------------------------------------------------------------------
(* C15 *)

\* C15: in a store configured for manual archive, canArchive() is false
\* right after construction, becomes true with a successful update through
\* the dispatcher and with nothing else (a failed update leaves it as it
\* was), and is false after archive(), as after every navigation and
\* reset(), which close the open step themselves.
C15_CanArchive ==
    [][(pc' = "live" /\ ~options.autoArchive) =>
          /\ pc = "initializing" => ~canArchive(travels')
          /\ (pc = "live" /\ last'.op = "set") =>
                (canArchive(travels') <=>
                    (last'.err = "none" \/ canArchive(travels)))
          /\ (pc = "live"
                 /\ last'.op \in {"archive", "back", "forward", "go", "reset"}) =>
                ~canArchive(travels')]_vars

\* archive() has just closed a step that updates had opened.
C15_Witness ==
    /\ Live
    /\ ~options.autoArchive
    /\ last.op = "archive"
    /\ last.emits > 0
    /\ arch.m > 0
    /\ ~canArchive(travels)

-----------------------------------------------------------------------------
(* C16 *)

\* C16: in a store configured for auto-archive, in every Active state
\* canBack() is true iff the position is greater than 0, which is iff
\* back() would move, and canForward() is true iff the position is not the
\* latest entry, which is iff forward() would move; both are false right
\* after construction; a commit makes canBack() true and canForward()
\* false, a back() that moved makes canForward() true, a forward() that
\* moved makes canBack() true.
C16_CanBackCanForward ==
    [][(pc' = "live" /\ options.autoArchive) =>
          /\ canBack(travels') <=> travels'.position > 0
          /\ canBack(travels') <=> EngBack(travels').emitted # <<>>
          /\ canForward(travels') <=>
                travels'.position < Len(getHistory(travels')) - 1
          /\ canForward(travels') <=> EngForward(travels').emitted # <<>>
          /\ pc = "initializing" =>
                ~canBack(travels') /\ ~canForward(travels')
          /\ (pc = "live" /\ last'.op = "set" /\ last'.err = "none") =>
                canBack(travels') /\ ~canForward(travels')
          /\ (last'.op = "back" /\ last'.emits > 0) =>
                /\ canForward(travels')
                /\ travels'.position = travels.position - 1
          /\ (last'.op = "forward" /\ last'.emits > 0) =>
                /\ canBack(travels')
                /\ travels'.position = travels.position + 1]_vars

\* One commit, then back(): canBack() is false and canForward() is true.
C16_Witness ==
    /\ Live
    /\ options.autoArchive
    /\ last.op = "back"
    /\ last.emits > 0
    /\ ups = 1
    /\ backs = 1
    /\ ~canBack(travels)
    /\ canForward(travels)

-----------------------------------------------------------------------------
(* C17 *)

\* C17: from every Active state, reset() leaves the engine at the initial
\* data (the data part of what the initializer returned) and the store's
\* data equal to it, with every behavior entry present and intact.
C17_Reset ==
    [][(pc = "live" /\ last'.op = "reset") =>
          /\ travels'.state = Obj(InitialData)
          /\ StoreData' = InitialData
          /\ BehaviorIntact(StoreObj')
          /\ DOMAIN StoreObj' = DOMAIN InitialData \cup DOMAIN Behavior]_vars

\* reset() after commits, on a store that has both data and behavior.
C17_Witness ==
    /\ Live
    /\ last.op = "reset"
    /\ last.emits > 0
    /\ ncommits = MaxCommits
    /\ InitialData # NoKeys
    /\ Behavior # NoKeys
    /\ StoreData = InitialData

-----------------------------------------------------------------------------
(* C18 *)

\* C18: the phase only moves forward, Uninitialized to Initializing to
\* Active (or to a failed construction); once Active it stays Active under
\* every operation, the flag isInitializing is never set again, and every
\* dispatcher call of the Active phase is routed to the engine (or
\* rejected as NullUpdater), never to the host store's own update.
C18_PhaseMonotonic ==
    [][/\ pc = "uninit" => pc' \in {"uninit", "initializing"}
       /\ pc = "initializing" => pc' \in {"initializing", "live", "failed"}
       /\ pc = "live" => pc' = "live"
       /\ pc' = "live" <=> ~isInitializing'
       /\ ~isInitializing => ~isInitializing'
       /\ (pc = "live" /\ last'.op = "set") =>
             /\ last'.route # "bypass"
             /\ last'.err = "none" => last'.emits = 1
             /\ last'.emits = 0 => store' = store]_vars

\* Still Active after commits, a navigation other than back() and a failed
\* update.
C18_Witness ==
    /\ Live
    /\ ~isInitializing
    /\ last.op = "set"
    /\ last.err = "E1"
    /\ ncommits > 0
    /\ ups = -1

-----------------------------------------------------------------------------
(* C19 *)

\* Step a was taken before step b in the construction.
Before(a, b) ==
    \E i, j \in 1 .. Len(wiring) : i < j /\ wiring[i] = a /\ wiring[j] = b

-----------------------------------------------------------------------------
(* C20 *)

\* How many times step a was taken in the construction.
Times(a) == Cardinality({i \in 1 .. Len(wiring) : wiring[i] = a})

\* What identifies the engine instance: what it was constructed with.
Instance(eng) ==
    [built |-> eng.built, initialState |-> eng.initialState,
     autoArchive |-> eng.autoArchive, maxHistory |-> eng.maxHistory,
     mutable |-> eng.mutable]

\* C20: per store construction the initializer is invoked once, while the
\* flag isInitializing is set; one engine is constructed, at the end of the
\* construction, from the data part of what the initializer returned and
\* the caller's options with mutable forced to false; and every later
\* commit and controls call works on that engine.
C20_OneInitializerOneEngine ==
    [][/\ Times("initializer")' <= 1 /\ Times("engine")' <= 1
       /\ pc' \in {"initializing", "live", "failed"} => Times("initializer")' = 1
       /\ Times("initializer")' > Times("initializer") =>
             pc = "uninit" /\ isInitializing'
       /\ pc' = "live" <=> Times("engine")' = 1
       /\ travels'.built <=> Times("engine")' = 1
       /\ (~travels.built /\ travels'.built) =>
             /\ pc = "initializing"
             /\ last'.op = "create"
             /\ travels' = NewTravels(Obj(InitialData'),
                                      [options EXCEPT !.mutable = FALSE])
       /\ travels.built => Instance(travels') = Instance(travels)]_vars

\* Commits and a controls call have been made on the engine the
\* construction built.
C20_Witness ==
    /\ Live
    /\ Times("initializer") = 1
    /\ Times("engine") = 1
    /\ ncommits = MaxCommits
    /\ last.op = "forward"
    /\ last.emits > 0
    /\ travels.initialState = Obj(InitialData)
    /\ Behavior # NoKeys

-----------------------------------------------------------------------------
(* C21 *)

\* The entries of the map m whose values are callable.
CallablePart(m) == [k \in {x \in DOMAIN m : IsCallable(m[x])} |-> m[k]]

-----------------------------------------------------------------------------
(* C22 *)

\* The callable entries, as <<key, reference>> pairs, of the engine's
\* current state and of every getHistory() entry.
HeldCallables(eng) ==
    UNION { {<<k, Spread(s)[k]>> : k \in DOMAIN CallablePart(Spread(s))} :
            s \in {eng.state} \cup {getHistory(eng)[i] :
                                      i \in 1 .. Len(getHistory(eng))} }

\* The callable entries the callers' updates carry.
UpdateCallables ==
    UNION { {<<k, o[k]>> : k \in DOMAIN CallablePart(o)} : o \in UpdateObjs }

-----------------------------------------------------------------------------
(* C23 *)

\* C23: once the store is Active its state changes only by the bridge's
\* republish of an engine emission, to the emitted snapshot plus the
\* behavior entries, and between operations the store's data is the
\* engine's current snapshot.  Violated (SpecOpen) by a direct call of the
\* store handle's setState, which the engine never sees.
C23_OnlyPath ==
    [][pc = "live" =>
          /\ store' # store =>
                /\ last'.emits > 0
                /\ store' = Obj(Assign(Snapshot', actions))
          /\ StoreData' = Without(Snapshot', DOMAIN Behavior')]_vars

-----------------------------------------------------------------------------
(* C24 *)

\* C24: in the Active phase each successful update is an updater applied to
\* the state the previous call left in the engine, emitted once; every
\* emission of a call is republished, in the order of emission, so that
\* after the call the store shows the engine's latest snapshot, never an
\* earlier one; a call without emission republishes nothing.
C24_Ordering ==
    [][pc = "live" =>
          /\ (last'.op = "set" /\ last'.err = "none") =>
                /\ last'.emits = 1
                /\ \E u \in Updaters :
                      travels'.state = RunUpdater(travels.state, u).state
          /\ last'.emits > 0 => store' = Obj(Assign(Snapshot', actions))
          /\ last'.emits = 0 =>
                /\ store' = store
                /\ travels'.state = travels.state]_vars

\* A back() on pending changes: the engine emitted twice (the archived
\* snapshot, then the one gone back to) and the store shows the second.
C24_Witness ==
    /\ Live
    /\ last.op = "back"
    /\ last.emits = 2
    /\ store = Obj(Assign(Snapshot, actions))
    /\ Len(getHistory(travels)) = 2
    /\ getHistory(travels)[2] # travels.state
    /\ Obj(Assign(Spread(getHistory(travels)[2]), actions)) # store

\* C25: the engine is constructed in immutable mode whatever the caller's
\* options say, an attempted mutable flag included, and every other option
\* (maxHistory, autoArchive, initialPosition, initialPatches) reaches the
\* engine as the caller gave it; the configuration stays so afterwards.
C25_ImmutableEngine ==
    [][travels'.built =>
          /\ travels'.mutable = FALSE
          /\ travels'.maxHistory = options.maxHistory
          /\ travels'.autoArchive = options.autoArchive
          /\ travels'.initialPosition = options.initialPosition
          /\ travels'.initialPatches = options.initialPatches]_vars

C25_Witness ==
    /\ Live
    /\ options.mutable
    /\ options.initialPatches # <<>>
    /\ options.initialPosition = 1
    /\ travels.built
    /\ ~travels.mutable
    /\ travels.initialPatches = options.initialPatches
    /\ travels.position = 1

-----------------------------------------------------------------------------
(* separateStateAndActions as a function of its argument: every object    *)
(* over three keys, each absent or holding a data value or a callable.    *)

PartitionKeys == {"count", "name", "inc"}

PartitionInputs ==
    {Obj(m) : m \in UNION {[ks -> DataVals \cup FnRefs] : ks \in SUBSET PartitionKeys}}

InitPartition ==
    /\ dev \in BOOLEAN
    /\ options \in OptionsSet
    /\ pc = "run"
    /\ isInitializing = TRUE
    /\ actions = NoKeys
    /\ travels = NoEngine
    /\ subscribed = FALSE
    /\ hasControls = FALSE
    /\ store = Undefined
    /\ initRet \in PartitionInputs
    /\ wiring = <<>>
    /\ last = Call("none", "none", "none", 0, 0)
    /\ ninit = 1
    /\ ncommits = 0
    /\ ups = 0
    /\ backs = 0
    /\ trip = NoTrip
    /\ arch = NoArch
    /\ other = NoStore

\* const { state, actions } = separateStateAndActions(initialState): the
\* two halves are held in store (state) and actions.
Partition ==
    /\ pc = "run"
    /\ pc' = "separated"
    /\ store' = Obj(separateStateAndActions(initRet).state)
    /\ actions' = separateStateAndActions(initRet).actions
    /\ UNCHANGED <<other, dev, options, isInitializing, travels, subscribed,
                   hasControls, initRet, wiring, last, ninit, ncommits, ups,
                   backs, trip, arch>>

SpecPartition == InitPartition /\ [][Partition]_vars

\* C26: the partitioner is total and disjoint: each key of the combined
\* state lands in exactly one of the two parts, in the behavior part exactly
\* when its value is callable, with its value unchanged, and the two parts
\* together are the combined state.
C26_Partition ==
    pc = "separated" =>
        LET m == initRet.obj
            d == store.obj
        IN /\ (DOMAIN d) \cap (DOMAIN actions) = {}
           /\ (DOMAIN d) \cup (DOMAIN actions) = DOMAIN m
           /\ \A k \in DOMAIN m :
                 /\ k \in DOMAIN actions <=> m[k] \in FnRefs
                 /\ k \in DOMAIN actions => actions[k] = m[k]
                 /\ k \in DOMAIN d => d[k] = m[k]
           /\ Assign(d, actions) = m

C26_Witness ==
    /\ pc = "separated"
    /\ DOMAIN initRet.obj = PartitionKeys
    /\ DOMAIN actions = {"inc"}
    /\ DOMAIN store.obj = {"count", "name"}

C28_Delegation ==
    [][/\ pc' = "live" => hasControls' /\ getControls'.built
       /\ (last'.op = "set" /\ last'.err = "none" /\ last'.emits > 0) =>
            /\ canBack(getControls')
            /\ getControls'.state = travels'.state
            /\ getControls'.position = travels'.position
            /\ getControls'.position >= getControls.position
       /\ (last'.op = "back" /\ canBack(getControls)) =>
            /\ last'.emits > 0
            /\ travels'.position = getControls.position - 1
            /\ getControls' = travels'
            /\ store' = Obj(Assign(Spread(getControls'.state), actions))
       /\ (last'.op \in {"forward", "go", "reset"} /\ last'.emits > 0) =>
            /\ getControls' = travels'
            /\ store' = Obj(Assign(Spread(getControls'.state), actions))]_vars

C28_Witness ==
    /\ Live
    /\ hasControls
    /\ last.op = "back"
    /\ last.emits > 0
    /\ ups >= 1
    /\ backs = 1
    /\ canForward(getControls)
    /\ store = Obj(Assign(Spread(getControls.state), actions))
    /\ store # initRet

\* C29: a store constructed with initialPatches P and initialPosition p has,
\* after construction, the initializer's return value as its state and an
\* engine at position p over the history restored from P: back() is
\* possible exactly when p > 0, and the construction itself emits nothing
\* and adds no history entry.  A back() taken next moves exactly when p > 0.
C29_Restore ==
    [][/\ (pc = "initializing" /\ pc' = "live") =>
            /\ store' = initRet'
            /\ last'.emits = 0
            /\ travels'.state = Obj(InitialData')
            /\ travels'.position = options.initialPosition
            /\ Len(getHistory(travels')) = Len(options.initialPatches) + 1
            /\ getHistory(travels')[options.initialPosition + 1] = Obj(InitialData')
            /\ canBack(travels') <=> options.initialPosition > 0
       /\ (last.op = "create" /\ pc = "live" /\ last'.op = "back") =>
            /\ last'.emits > 0 <=> options.initialPosition > 0
            /\ options.initialPosition > 0 =>
                  /\ travels'.position = options.initialPosition - 1
                  /\ store' = Obj(Assign(Spread(getHistory(travels)[options.initialPosition]),
                                         actions))]_vars

C29_Witness ==
    /\ Live
    /\ last.op = "back"
    /\ last.emits > 0
    /\ ncommits = 0
    /\ options.initialPosition = 1
    /\ travels.position = 0
    /\ canForward(travels)
    /\ store # initRet
    /\ StoreData = Assign(InitialData, "count" :> "d0")

\* C30: in the Active phase a callable updater goes to the engine's commit
\* operation as it is, whatever the replace argument: the engine, the store
\* and the outcome of the call are the same for replace true, false and
\* absent.
C30_FunctionRoute ==
    Live =>
        \A u \in {x \in Updaters : IsFunction(x)} :
            /\ \A replace \in Replaces :
                  /\ Route(u, replace) = u
                  /\ Branch(u, replace) = "function"
            /\ travelSet(u, "true") = travelSet(u, "absent")
            /\ travelSet(u, "false") = travelSet(u, "absent")
            /\ travelSet(u, "absent").eng = EngSetState(travels, u).eng

C30_Witness ==
    /\ Live
    /\ last.op = "set"
    /\ last.route = "function"
    /\ last.err = "none"
    /\ last.emits = 1
    /\ canBack(travels)
    /\ Snapshot # InitialData
    /\ travelSet(MutateUpd("count" :> "d1", {}), "true").store
         = travelSet(MutateUpd("count" :> "d1", {}), "false").store
    /\ travelSet(MutateUpd("count" :> "d1", {}), "true").store # store

-----------------------------------------------------------------------------
(* C31 *)

Navigations == {"back", "forward", "go", "reset"}

\* C31 as stated: every successful dispatcher call and every navigation
\* that did something caused exactly one emission.  Violated by a back() on
\* pending changes in manual-archive mode: the implied archive is emitted,
\* then the snapshot gone back to.
C31_AsStated ==
    [][(pc = "live" /\ last'.err = "none"
           /\ \/ last'.op = "set"
              \/ last'.op \in Navigations /\ travels' # travels)
          => last'.emits = 1]_vars

\* C31: by the time a call returns, every emission it caused has been
\* republished to the store by full replacement.  A successful dispatcher
\* call causes exactly one emission; a failed one causes none and leaves
\* store and engine alone; a navigation causes one emission when the
\* position changes, preceded by one for the archive it implies when changes
\* are pending, and none when it does nothing; reset causes one.
C31_Synchronous ==
    [][pc = "live" =>
          /\ (last'.op = "set" /\ last'.err = "none") => last'.emits = 1
          /\ (last'.op = "set" /\ last'.err # "none") =>
                /\ last'.emits = 0
                /\ travels' = travels
          /\ last'.op \in {"back", "forward", "go"} =>
                last'.emits = (IF canArchive(travels) THEN 1 ELSE 0)
                              + (IF travels'.position # travels.position
                                 THEN 1 ELSE 0)
          /\ last'.op = "reset" => last'.emits = 1
          /\ last'.emits > 0 =>
                store' = SubscribeCallback(store, actions, travels'.state)
          /\ last'.emits = 0 => store' = store]_vars

C31_Witness ==
    /\ Live
    /\ last.op = "forward"
    /\ last.emits = 1
    /\ canBack(travels)
    /\ store = SubscribeCallback(store, actions, travels.state)
    /\ store # initRet

-----------------------------------------------------------------------------
(* C32 *)

\* C32: in the Active phase a function that returns a value V is not merged:
\* whatever the replace argument, the engine's data after the commit is
\* exactly V and the store is V's entries under the behavior entries, so the
\* store's data is V without the keys that name a behavior entry, every
\* current data key missing from V is gone, and every behavior entry is
\* present and unchanged.
C32_ProducedNotMerged ==
    Live =>
        \A o \in UpdateObjs, replace \in Replaces :
            LET r == travelSet(ProduceUpd(o), replace)
            IN /\ r.err = "none"
               /\ r.emits = 1
               /\ Spread(r.eng.state) = o
               /\ r.store = Obj(Assign(o, Behavior))
               /\ Without(Spread(r.store), DOMAIN Behavior) = Without(o, DOMAIN Behavior)
               /\ \A k \in DOMAIN StoreData \ DOMAIN o : k \notin DOMAIN Spread(r.store)
               /\ BehaviorIntact(Spread(r.store))

\* The only commit so far was made by a function, and it dropped the data
\* key name, which a merge would have kept.
C32_Witness ==
    /\ Live
    /\ last.op = "set"
    /\ last.route = "function"
    /\ last.emits = 1
    /\ ncommits = 1
    /\ Behavior # NoKeys
    /\ "name" \in DOMAIN InitialData
    /\ Snapshot = ("count" :> "d1")
    /\ StoreData = ("count" :> "d1")
    /\ "name" \notin DOMAIN StoreObj

-----------------------------------------------------------------------------
(* C33 *)

\* C33: when a plain-value update, merged or replacing, holds a key that
\* names a behavior entry, the engine's snapshot takes the update's value for
\* that key, and the store after the republish still holds, under that key,
\* the reference captured at initialization, which is callable.
C33_BehaviorWins ==
    Live =>
        \A o \in UpdateObjs, replace \in Replaces :
            LET r == travelSet(PlainUpd(o), replace)
            IN \A k \in DOMAIN o \cap DOMAIN Behavior :
                  /\ r.emits = 1
                  /\ Spread(r.eng.state)[k] = o[k]
                  /\ k \in DOMAIN Spread(r.store)
                  /\ Spread(r.store)[k] = Behavior[k]
                  /\ IsCallable(Spread(r.store)[k])

\* A merge has put fB under the behavior key inc of the snapshot; the store
\* still holds fA there.
C33_Witness ==
    /\ Live
    /\ last.op = "set"
    /\ last.route = "merge"
    /\ last.emits = 1
    /\ "inc" \in DOMAIN Behavior
    /\ "inc" \in DOMAIN Snapshot
    /\ Snapshot["inc"] = "fB"
    /\ StoreObj["inc"] = "fA"
    /\ Behavior["inc"] = "fA"

-----------------------------------------------------------------------------
(* C34 *)

\* The updaters whose dispatch fails in the Active phase: those that raise
\* and, where the null check is compiled in, null and undefined.
FailingUpdaters ==
    {ThrowUpd(e) : e \in UpdaterErrors}
    \cup (IF dev THEN {NullUpd, UndefinedUpd} ELSE {})

-----------------------------------------------------------------------------
(* C35 *)

\* C35: in manual-archive mode every successful dispatcher call is
\* republished at once: after the commit, with the changes still pending
\* and no archive() called, the store's data is the engine's current
\* snapshot; archive() does not change the store's data.
C35_ManualRepublish ==
    [][(pc = "live" /\ ~travels.autoArchive) =>
          /\ (last'.op = "set" /\ last'.err = "none") =>
                /\ last'.emits = 1
                /\ canArchive(travels')
                /\ store' = Obj(Assign(Snapshot', actions))
                /\ StoreData' = Without(Snapshot', DOMAIN Behavior)
          /\ last'.op = "archive" =>
                /\ ~canArchive(travels')
                /\ Snapshot' = Snapshot
                /\ StoreData' = StoreData
                /\ store' = store]_vars

\* Two commits are pending, none archived, and the store shows the second.
C35_Witness ==
    /\ Live
    /\ ~travels.autoArchive
    /\ last.op = "set"
    /\ last.err = "none"
    /\ ncommits = 2
    /\ canArchive(travels)
    /\ travels.position = 1
    /\ Snapshot # InitialData
    /\ StoreData = Without(Snapshot, DOMAIN Behavior)
    /\ StoreData # InitialData

-----------------------------------------------------------------------------
(* C36 *)

\* C36: in auto-archive mode a successful dispatcher call, in particular
\* one made after one or more back() steps, leaves canForward() false, and
\* a forward() made next changes neither the engine nor the store.
C36_RedoDiscarded ==
    [][(pc = "live" /\ travels.autoArchive) =>
          /\ (last'.op = "set" /\ last'.err = "none") =>
                /\ ~canForward(travels')
                /\ travels'.position = Len(getHistory(travels')) - 1
                /\ EngForward(travels').emitted = <<>>
          /\ (last.op = "set" /\ last.err = "none" /\ last'.op = "forward") =>
                /\ last'.emits = 0
                /\ travels' = travels
                /\ store' = store]_vars

\* A back() has just left a redo step; the update about to be dispatched
\* discards it, and forward() then finds nothing.
C36_Witness ==
    /\ Live
    /\ travels.autoArchive
    /\ last.op = "back"
    /\ last.emits = 1
    /\ backs = 1
    /\ canForward(travels)
    /\ ncommits < MaxCommits
    /\ LET r == travelSet(PlainUpd(("name" :> "d1") @@ ("inc" :> "fB")), "absent")
       IN /\ r.err = "none"
          /\ ~canForward(r.eng)
          /\ getHistory(r.eng)[r.eng.position + 1] # getHistory(travels)[travels.position + 2]
          /\ EngForward(r.eng).eng = r.eng

-----------------------------------------------------------------------------
(* C37 *)

-----------------------------------------------------------------------------
(* C38 *)

\* C38: of two stores created from the same state creator, a call on one
\* (an update, a navigation, a construction that fails or succeeds) leaves
\* the other's phase, engine, behavior set and state as they were, and the
\* store the caller turns to is exactly as it was left.
C38_Isolation ==
    [][IF last'.op = "switch" /\ pc' # "initializing"
       THEN /\ Own' = other
            /\ other' = Own
       ELSE other' = other]_vars

\* One store has committed and gone back; the other, constructed before,
\* is still at its initial state with an empty history.
C38_Witness ==
    /\ Live
    /\ last.op = "back"
    /\ last.emits = 1
    /\ canForward(travels)
    /\ other.pc = "live"
    /\ other.travels.position = 0
    /\ Len(getHistory(other.travels)) = 1
    /\ other.store = other.initRet
    /\ other.travels # travels
    /\ other.actions = actions

====
